---- MODULE Spec2Model ----
(***************************************************************************)
(* Latin -> Tengwar Annatar transliteration (latin_to_tengwar.py).         *)
(*                                                                         *)
(* A Python string is modelled as a sequence of one-character strings, so  *)
(* that slicing, indexing and concatenation are the sequence operations.   *)
(* Latin text and glyph codes live in the same character space, as they do *)
(* in the program (annatar_word may receive Latin text).  The grave accent  *)
(* character U+0060, which a TLA+ string cannot hold, is written "grave".  *)
(***************************************************************************)
EXTENDS Integers, Sequences, FiniteSets, TLC

VARIABLES
    sentence,           \* argument of transcribe_sentence
    words,              \* LatinText.words
    idx,                \* position of the for loop of transcribe_sentence in words
    quenya_words,       \* list built by transcribe_sentence
    new_sentence,       \* value returned by transcribe_sentence
    latin_word,         \* LatinWord.latin_word
    latin_word_length,  \* LatinWord.latin_word_length
    annatar_word,       \* LatinWord.annatar_word
    word_length,        \* local counter of transliterate()
    pc,                 \* control position
    word,               \* history: the argument the current LatinWord was built from
    fired,              \* history: the rule fired by the last step of the current run
    consumed,           \* history: sum of the key lengths of the rules fired in the current run
    calls               \* history: number of calls of transliterate() on the current LatinWord

vars == <<sentence, words, idx, quenya_words, new_sentence, latin_word,
          latin_word_length, annatar_word, word_length, pc, word, fired, consumed,
          calls>>

-----------------------------------------------------------------------------
(* Bounds of the model *)

MaxPieces == 3

\* calls of transliterate() made on one LatinWord
MaxCalls == 2

-----------------------------------------------------------------------------
(* Python string helpers *)

\* s[:n]
Take(s, n) == IF Len(s) <= n THEN s ELSE SubSeq(s, 1, n)

\* s[n:]
Drop(s, n) == IF Len(s) <= n THEN << >> ELSE SubSeq(s, n + 1, Len(s))

\* s[-1]
Last(s) == s[Len(s)]

\* d.values()
Values(d) == {d[k] : k \in DOMAIN d}

-----------------------------------------------------------------------------
(* Pattern tables *)

vowels == {"a", "e", "i", "o", "u", "á", "é", "í", "ó", "ú", "ä", "ë", "ï", "ö", "ü"}

tengwar_vowels == {"C", "F", "G", "H", "J"}

combined_vowels ==
    ("a" :> <<"C">>) @@
    ("e" :> <<"F">>) @@
    ("i" :> <<"G">>) @@
    ("o" :> <<"H">>) @@
    ("u" :> <<"J">>) @@
    ("ä" :> <<"C">>) @@
    ("ë" :> <<"F">>) @@
    ("ï" :> <<"G">>) @@
    ("ö" :> <<"H">>) @@
    ("ü" :> <<"J">>)

long_vowels ==
    ("á" :> <<"~", "C">>) @@
    ("é" :> <<"~", "F">>) @@
    ("í" :> <<"~", "G">>) @@
    ("ó" :> <<"~", "H">>) @@
    ("ú" :> <<"~", "J">>)

independent_vowels ==
    ("a" :> <<"grave", "C">>) @@
    ("e" :> <<"grave", "F">>) @@
    ("i" :> <<"grave", "G">>) @@
    ("o" :> <<"grave", "H">>) @@
    ("u" :> <<"grave", "J">>) @@
    ("ä" :> <<"grave", "C">>) @@
    ("ë" :> <<"grave", "F">>) @@
    ("ï" :> <<"grave", "G">>) @@
    ("ö" :> <<"grave", "H">>) @@
    ("ü" :> <<"grave", "J">>) @@
    ("á" :> <<"~", "C">>) @@
    ("é" :> <<"~", "F">>) @@
    ("í" :> <<"~", "G">>) @@
    ("ó" :> <<"~", "H">>) @@
    ("ú" :> <<"~", "J">>)

\* the dict literal lists 'ss' twice (',' then 'k'); the later entry is the one kept
doubles ==
    (<<"ñ", "w">> :> <<"b">>) @@
    (<<"r", "d">> :> <<"u">>) @@
    (<<"l", "d">> :> <<"m">>) @@
    (<<"s", "s">> :> <<"k">>) @@
    (<<"q", "u">> :> <<"z">>) @@
    (<<"n", "d">> :> <<"2">>) @@
    (<<"m", "b">> :> <<"w">>) @@
    (<<"n", "g">> :> <<"s">>) @@
    (<<"c", "h">> :> <<"d">>) @@
    (<<"h", "w">> :> <<"c">>) @@
    (<<"n", "t">> :> <<"4">>) @@
    (<<"m", "p">> :> <<"r">>) @@
    (<<"n", "c">> :> <<"f">>) @@
    (<<"a", "i">> :> <<"l", "C">>) @@
    (<<"a", "u">> :> <<".", "C">>) @@
    (<<"o", "i">> :> <<"l", "H">>) @@
    (<<"u", "i">> :> <<"l", "J">>) @@
    (<<"e", "u">> :> <<".", "F">>) @@
    (<<"i", "u">> :> <<".", "G">>) @@
    (<<"t", "y">> :> <<"1", "Ì">>) @@
    (<<"s", "y">> :> <<"i", "Ì">>) @@
    (<<"n", "y">> :> <<"5", "Ì">>) @@
    (<<"r", "y">> :> <<"6", "Ì">>) @@
    (<<"l", "y">> :> <<"j", "Ì">>) @@
    (<<"t", "t">> :> <<"1", "'">>) @@
    (<<"n", "n">> :> <<"5", "'">>) @@
    (<<"l", "l">> :> <<"j", "'">>) @@
    (<<"m", "m">> :> <<"t", "'">>) @@
    (<<"h", "r">> :> <<"Á", "6">>) @@
    (<<"h", "l">> :> <<"Á", "j">>)

triples ==
    (<<"n", "g", "w">> :> <<"x">>) @@
    (<<"n", "q", "u">> :> <<"v">>) @@
    (<<"n", "d", "y">> :> <<"2", "Ì">>) @@
    (<<"n", "t", "y">> :> <<"4", "Ì">>) @@
    (<<"s", "s", "a">> :> <<",", "C">>) @@
    (<<"s", "s", "e">> :> <<",", "F">>) @@
    (<<"s", "s", "i">> :> <<",", "G">>) @@
    (<<"s", "s", "o">> :> <<",", "H">>) @@
    (<<"s", "s", "u">> :> <<",", "J">>) @@
    (<<"s", "s", "ë">> :> <<",", "F">>) @@
    (<<"s", "a", "i">> :> <<"8", "l", "C">>) @@
    (<<"s", "a", "u">> :> <<"8", ".", "C">>) @@
    (<<"s", "o", "i">> :> <<"8", "l", "H">>) @@
    (<<"s", "u", "i">> :> <<"8", "l", "J">>) @@
    (<<"s", "e", "u">> :> <<"8", ".", "F">>) @@
    (<<"s", "i", "u">> :> <<"8", ".", "G">>)

quads ==
    (<<"s", "s", "a", "i">> :> <<"k", "l", "C">>) @@
    (<<"s", "s", "a", "u">> :> <<"k", ".", "C">>) @@
    (<<"s", "s", "o", "i">> :> <<"k", "l", "H">>) @@
    (<<"s", "s", "u", "i">> :> <<"k", "l", "J">>) @@
    (<<"s", "s", "e", "u">> :> <<"k", ".", "F">>) @@
    (<<"s", "s", "i", "u">> :> <<"k", ".", "G">>)

consonants ==
    ("t" :> <<"1">>) @@
    ("p" :> <<"q">>) @@
    ("c" :> <<"a">>) @@
    ("k" :> <<"a">>) @@
    ("f" :> <<"e">>) @@
    ("n" :> <<"5">>) @@
    ("m" :> <<"t">>) @@
    ("ñ" :> <<"g">>) @@
    ("r" :> <<"7">>) @@
    ("v" :> <<"y">>) @@
    ("y" :> <<"h">>) @@
    ("w" :> <<"n">>) @@
    ("l" :> <<"j">>) @@
    ("h" :> <<"d">>) @@
    ("s" :> <<"8">>) @@
    ("þ" :> <<"3">>) @@
    ("x" :> <<"a", "Ç">>)

initial_consonant ==
    ("h" :> <<"9">>) @@
    ("y" :> <<"h", "Ì">>) @@
    ("r" :> <<"7">>)

-----------------------------------------------------------------------------
(* LatinWord: the rule checks.  A check that falls off its end returns     *)
(* None, which the callers test like False.                                *)

quad_check(lw) ==
    IF Len(lw) = 4 THEN lw \in DOMAIN quads
    ELSE Take(lw, 4) \in DOMAIN quads

triple_check(lw) ==
    IF Len(lw) = 3 THEN lw \in DOMAIN triples
    ELSE Take(lw, 3) \in DOMAIN triples

double_check(lw, aw) ==
    IF Len(lw) = 2 THEN lw \in DOMAIN doubles
    ELSE IF Take(lw, 2) \in DOMAIN doubles
         THEN IF Take(lw, 2) = <<"n", "w">> THEN Len(aw) = 0 ELSE TRUE
         ELSE FALSE

initial_vowel_check(lw, aw) == lw[1] \in vowels /\ Len(aw) = 0

\* mutant: only 'h' has a word-initial glyph
initial_h_check_h_only(lw, aw) == lw[1] = "h" /\ Len(aw) = 0

initial_h_check(lw, aw) == lw[1] \in DOMAIN initial_consonant /\ Len(aw) = 0

long_vowel_check(lw) == lw[1] \in DOMAIN long_vowels

\* mutant: the check never answers True
preceding_vowel_check_never(lw, aw) == FALSE

preceding_vowel_check(lw, aw) ==
    IF Len(aw) > 0 /\ lw[1] \in vowels
    THEN <<Last(aw)>> \in Values(combined_vowels)
    ELSE FALSE

combined_vowel_check(lw, aw) == Len(aw) > 0 /\ lw[1] \in vowels

consonant_check(lw) == lw[1] \in DOMAIN consonants

-----------------------------------------------------------------------------
(* LatinWord: the substitutions, as the pair of fields they leave behind.  *)

\* mutant: the slice of the general case drops three characters
quad_substitute_short(lw, aw) ==
    IF Len(lw) = 4
    THEN [latin_word |-> << >>, annatar_word |-> aw \o lw]
    ELSE [latin_word |-> Drop(lw, 3), annatar_word |-> aw \o quads[Take(lw, 4)]]

quad_substitute(lw, aw) ==
    IF Len(lw) = 4
    THEN [latin_word |-> << >>, annatar_word |-> aw \o lw]
    ELSE [latin_word |-> Drop(lw, 4), annatar_word |-> aw \o quads[Take(lw, 4)]]

\* mutant: the slice of the general case drops two characters
triple_substitute_short(lw, aw) ==
    IF Len(lw) = 3
    THEN [latin_word |-> << >>, annatar_word |-> aw \o triples[lw]]
    ELSE [latin_word |-> Drop(lw, 2), annatar_word |-> aw \o triples[Take(lw, 3)]]

triple_substitute(lw, aw) ==
    IF Len(lw) = 3
    THEN [latin_word |-> << >>, annatar_word |-> aw \o triples[lw]]
    ELSE [latin_word |-> Drop(lw, 3), annatar_word |-> aw \o triples[Take(lw, 3)]]

double_substitute(lw, aw) ==
    IF Len(lw) = 2
    THEN [latin_word |-> << >>, annatar_word |-> aw \o lw]
    ELSE [latin_word |-> Drop(lw, 2), annatar_word |-> aw \o doubles[Take(lw, 2)]]

independent_vowel_substitute(lw, aw) ==
    [latin_word |-> IF Len(lw) = 1 THEN << >> ELSE Drop(lw, 1),
     annatar_word |-> aw \o independent_vowels[lw[1]]]

initial_h_substitute(lw, aw) ==
    [latin_word |-> IF Len(lw) = 1 THEN << >> ELSE Drop(lw, 1),
     annatar_word |-> aw \o initial_consonant[lw[1]]]

\* mutant: the glyph is taken from the table of the independent vowels
combined_vowel_substitute_independent(lw, aw) ==
    [latin_word |-> IF Len(lw) = 1 THEN << >> ELSE Drop(lw, 1),
     annatar_word |-> aw \o independent_vowels[lw[1]]]

combined_vowel_substitute(lw, aw) ==
    [latin_word |-> IF Len(lw) = 1 THEN << >> ELSE Drop(lw, 1),
     annatar_word |-> aw \o combined_vowels[lw[1]]]

\* mutant: the two conditions of the medial r are joined by `or`
consonant_substitute_or(lw, aw) ==
    IF lw[1] = "r"
    THEN IF Len(lw) > 1
         THEN IF Last(aw) \in tengwar_vowels \/ lw[2] \in vowels
              THEN [latin_word |-> Drop(lw, 1), annatar_word |-> aw \o <<"7">>]
              ELSE [latin_word |-> Drop(lw, 1), annatar_word |-> aw \o <<"6">>]
         ELSE [latin_word |-> << >>, annatar_word |-> aw \o <<"6">>]
    ELSE [latin_word |-> IF Len(lw) = 1 THEN << >> ELSE Drop(lw, 1),
          annatar_word |-> aw \o consonants[lw[1]]]

consonant_substitute(lw, aw) ==
    IF lw[1] = "r"
    THEN IF Len(lw) > 1
         THEN IF Last(aw) \in tengwar_vowels /\ lw[2] \in vowels
              THEN [latin_word |-> Drop(lw, 1), annatar_word |-> aw \o <<"7">>]
              ELSE [latin_word |-> Drop(lw, 1), annatar_word |-> aw \o <<"6">>]
         ELSE [latin_word |-> << >>, annatar_word |-> aw \o <<"6">>]
    ELSE [latin_word |-> IF Len(lw) = 1 THEN << >> ELSE Drop(lw, 1),
          annatar_word |-> aw \o consonants[lw[1]]]

long_vowel_substitute(lw, aw) ==
    [latin_word |-> IF Len(lw) = 1 THEN << >> ELSE Drop(lw, 1),
     annatar_word |-> aw \o long_vowels[lw[1]]]

-----------------------------------------------------------------------------
(* LatinWord.transliterate: the four while loops.                          *)
(* Loop k (k = 1..4) runs while word_length > 4 - k.  Loop 1 tests the     *)
(* quad rule with a plain `if` and then runs the if/elif chain; loops 2,   *)
(* 3 and 4 run the chain without its triple and double heads.              *)

\* The rule the if/elif chain of loop k selects, "none" when every check is
\* false, "IndexError" when a check indexes an empty latin_word.
Rule(k, lw, aw) ==
    IF k <= 2 /\ triple_check(lw) THEN "triple"
    ELSE IF k <= 3 /\ double_check(lw, aw) THEN "double"
    ELSE IF Len(lw) = 0 THEN "IndexError"
    ELSE IF initial_vowel_check(lw, aw) THEN "initial_vowel"
    ELSE IF initial_h_check(lw, aw) THEN "initial_h"
    ELSE IF long_vowel_check(lw) THEN "long_vowel"
    ELSE IF preceding_vowel_check(lw, aw) THEN "preceding_vowel"
    ELSE IF combined_vowel_check(lw, aw) THEN "combined_vowel"
    ELSE IF consonant_check(lw) THEN "consonant"
    ELSE "none"

\* The exception the selected rule ends in, "none" when it runs through.
Raises(r, lw, aw) ==
    IF r = "IndexError" THEN "IndexError"
    ELSE IF r = "combined_vowel" /\ lw[1] \notin DOMAIN combined_vowels THEN "KeyError"
    ELSE IF r = "consonant" /\ lw[1] = "r" /\ Len(lw) > 1 /\ Len(aw) = 0 THEN "IndexError"
    ELSE "none"

\* Control position after the body of loop k: the first loop from k on whose
\* condition holds, "done" when none does.
WhilePc(k, wl) ==
    IF k <= 1 /\ wl > 3 THEN "L1"
    ELSE IF k <= 2 /\ wl > 2 THEN "L2"
    ELSE IF k <= 3 /\ wl > 1 THEN "L3"
    ELSE IF wl > 0 THEN "L4"
    ELSE "done"

Running == {"L1", "chain1", "L2", "L3", "L4"}

\* The loop a control position belongs to.
LoopOf(p) ==
    IF p \in {"L1", "chain1"} THEN 1
    ELSE IF p = "L2" THEN 2
    ELSE IF p = "L3" THEN 3
    ELSE 4

loop == LoopOf(pc)

\* Control is at the head of the if/elif chain of the current loop.
InChain ==
    \/ pc \in {"chain1", "L2", "L3", "L4"}
    \/ pc = "L1" /\ ~quad_check(latin_word)

rule == Rule(loop, latin_word, annatar_word)

DriverVars == <<sentence, words, idx, quenya_words, new_sentence>>

\* One rule firing: the substitution res, then word_length -= n.
Fire(r, res, n, next) ==
    /\ latin_word' = res.latin_word
    /\ annatar_word' = res.annatar_word
    /\ word_length' = word_length - n
    /\ pc' = next
    /\ fired' = r
    /\ consumed' = consumed + n
    /\ UNCHANGED <<DriverVars, latin_word_length, word, calls>>

FireInChain(r, res, n) ==
    /\ InChain
    /\ rule = r
    /\ Raises(r, latin_word, annatar_word) = "none"
    /\ Fire(r, res, n, WhilePc(loop, word_length - n))

\* mutant: the counter starts from the attribute set by __init__
EntryLength_attribute(lw, lwl) == lwl

\* word_length = len(self.latin_word)
EntryLength(lw, lwl) == Len(lw)

\* A call of transliterate(): the first one on a fresh object, or one more
\* on an object whose run has completed.
Enter ==
    /\ pc \in {"new", "done"}
    /\ calls < MaxCalls
    /\ calls' = calls + 1
    /\ word_length' = EntryLength(latin_word, latin_word_length)
    /\ pc' = WhilePc(1, EntryLength(latin_word, latin_word_length))
    /\ UNCHANGED <<DriverVars, latin_word, latin_word_length, annatar_word,
                   word, fired, consumed>>

Quad ==
    /\ pc = "L1"
    /\ quad_check(latin_word)
    /\ Fire("quad", quad_substitute(latin_word, annatar_word), 4, "chain1")

Triple == FireInChain("triple", triple_substitute(latin_word, annatar_word), 3)

Double == FireInChain("double", double_substitute(latin_word, annatar_word), 2)

InitialVowel ==
    FireInChain("initial_vowel", independent_vowel_substitute(latin_word, annatar_word), 1)

InitialH == FireInChain("initial_h", initial_h_substitute(latin_word, annatar_word), 1)

LongVowel == FireInChain("long_vowel", long_vowel_substitute(latin_word, annatar_word), 1)

PrecedingVowel ==
    FireInChain("preceding_vowel", independent_vowel_substitute(latin_word, annatar_word), 1)

CombinedVowel ==
    FireInChain("combined_vowel", combined_vowel_substitute(latin_word, annatar_word), 1)

Consonant == FireInChain("consonant", consonant_substitute(latin_word, annatar_word), 1)

\* No check of the chain is true: the chain changes nothing and the while
\* condition is evaluated again.  fired = "none" records an iteration in
\* which no rule at all fired (after a quad the iteration did fire one).
NoMatch ==
    /\ InChain
    /\ rule = "none"
    /\ pc' = WhilePc(loop, word_length)
    /\ fired' = IF pc = "chain1" THEN fired ELSE "none"
    /\ UNCHANGED <<DriverVars, latin_word, latin_word_length, annatar_word,
                   word_length, word, consumed, calls>>

\* An exception leaves transliterate() and, uncaught, transcribe_sentence.
Raise ==
    /\ InChain
    /\ Raises(rule, latin_word, annatar_word) # "none"
    /\ pc' = Raises(rule, latin_word, annatar_word)
    /\ fired' = "raise"
    /\ UNCHANGED <<DriverVars, latin_word, latin_word_length, annatar_word,
                   word_length, word, consumed, calls>>

-----------------------------------------------------------------------------
(* LatinText and transcribe_sentence                                       *)

\* str.lower(), on the characters the model feeds in
lower_char(c) ==
    IF c = "A" THEN "a"
    ELSE IF c = "S" THEN "s"
    ELSE c

lower(s) == [i \in 1..Len(s) |-> lower_char(s[i])]

\* The characters of the model that the pattern \W matches; letters (with
\* or without diacritics), digits and the underscore are \w.
NonWordChars == {" ", ","}

\* re.split("\W+", s): the text between the maximal runs of \W characters,
\* with an empty string before a leading run and after a trailing one.
RECURSIVE re_split_from(_, _, _, _)
re_split_from(s, i, cur, acc) ==
    IF i > Len(s) THEN Append(acc, cur)
    ELSE IF s[i] \in NonWordChars
         THEN IF i > 1 /\ s[i - 1] \in NonWordChars
              THEN re_split_from(s, i + 1, cur, acc)
              ELSE re_split_from(s, i + 1, << >>, Append(acc, cur))
         ELSE re_split_from(s, i + 1, Append(cur, s[i]), acc)

re_split(s) == re_split_from(s, 1, << >>, << >>)

\* mutant: the words are joined without the space
RECURSIVE join_nothing(_)
join_nothing(l) ==
    IF Len(l) = 0 THEN << >>
    ELSE l[1] \o join_nothing(Tail(l))

\* ' '.join(l)
RECURSIVE join(_)
join(l) ==
    IF Len(l) = 0 THEN << >>
    ELSE IF Len(l) = 1 THEN l[1]
    ELSE l[1] \o <<" ">> \o join(Tail(l))

\* LatinText.__init__
LatinText(latin_string) == re_split(lower(latin_string))

\* mutant: annatar_word is shared by all objects and never reset
NewLatinWord_shared(w) ==
    [latin_word |-> w, latin_word_length |-> Len(w), annatar_word |-> annatar_word]

\* LatinWord.__init__: the fields of a fresh object
NewLatinWord(w) ==
    [latin_word |-> w, latin_word_length |-> Len(w), annatar_word |-> << >>]

\* tengwar_word = LatinWord(w), about to call tengwar_word.transliterate()
Construct(w) ==
    /\ latin_word' = NewLatinWord(w).latin_word
    /\ latin_word_length' = NewLatinWord(w).latin_word_length
    /\ annatar_word' = NewLatinWord(w).annatar_word
    /\ word_length' = 0
    /\ pc' = "new"
    /\ word' = w
    /\ fired' = ""
    /\ consumed' = 0
    /\ calls' = 0

\* transcribe_sentence up to the first pass of its for loop
Tokenize ==
    /\ pc = "call"
    /\ words' = LatinText(sentence)
    /\ idx' = 1
    /\ Construct(LatinText(sentence)[1])
    /\ UNCHANGED <<sentence, quenya_words, new_sentence>>

\* transliterate() returned: append the result and go on with the next word
NextWord ==
    /\ pc = "done"
    /\ idx < Len(words)
    /\ quenya_words' = Append(quenya_words, annatar_word)
    /\ idx' = idx + 1
    /\ Construct(words[idx + 1])
    /\ UNCHANGED <<sentence, words, new_sentence>>

\* transliterate() returned for the last word: join and return
Return ==
    /\ pc = "done"
    /\ idx = Len(words)
    /\ quenya_words' = Append(quenya_words, annatar_word)
    /\ new_sentence' = join(Append(quenya_words, annatar_word))
    /\ pc' = "returned"
    /\ UNCHANGED <<sentence, words, idx, latin_word, latin_word_length,
                   annatar_word, word_length, word, fired, consumed, calls>>

-----------------------------------------------------------------------------
(* Inputs: sentences put together from at most MaxPieces pieces.  The      *)
(* pieces are single characters of each class the rules tell apart, two    *)
(* multi-character keys so that long keys occur next to each other within  *)
(* the bound, separators, capitals and an underscore.                      *)

Pieces ==
    { <<"a">>, <<"i">>, <<"u">>, <<"á">>,
      <<"s">>, <<"t">>, <<"r">>, <<"ñ">>, <<"w">>, <<"q">>,
      <<"s", "s">>, <<"s", "s", "a", "i">>,
      <<" ">>, <<",", " ">>, <<"A">>, <<"_">> }

RECURSIVE Concats(_)
Concats(n) ==
    IF n = 0 THEN { << >> }
    ELSE Concats(n - 1) \cup { p \o c : p \in Pieces, c \in Concats(n - 1) }

\* every vowel at the start of a word and again after a consonant
VowelProbes == { <<v, "t", v>> : v \in vowels }

\* sentences of three words, so that a word has neighbours on both sides
ProbeWords == { <<"a">>, <<"t", "a">>, <<"s", "s", "a">>, <<"A", "i", "a">> }

WordProbes ==
    { a \o <<" ">> \o b \o <<",", " ">> \o c : a \in ProbeWords, b \in ProbeWords, c \in ProbeWords }

\* words that begin with a digraph key whose first character is 'r'
InitialRProbes ==
    { <<"r", c>> \o t : c \in {"d", "y"}, t \in { << >>, <<"a">>, <<"a", "r">> } }

Sentences == Concats(MaxPieces) \cup VowelProbes \cup WordProbes \cup InitialRProbes

-----------------------------------------------------------------------------

Init ==
    /\ sentence \in Sentences
    /\ words = << >>
    /\ idx = 0
    /\ quenya_words = << >>
    /\ new_sentence = << >>
    /\ latin_word = << >>
    /\ latin_word_length = 0
    /\ annatar_word = << >>
    /\ word_length = 0
    /\ pc = "call"
    /\ word = << >>
    /\ fired = ""
    /\ consumed = 0
    /\ calls = 0

Next ==
    \/ Tokenize
    \/ Enter
    \/ Quad
    \/ Triple
    \/ Double
    \/ InitialVowel
    \/ InitialH
    \/ LongVowel
    \/ PrecedingVowel
    \/ CombinedVowel
    \/ Consonant
    \/ NoMatch
    \/ Raise
    \/ NextWord
    \/ Return

Spec == Init /\ [][Next]_vars

-----------------------------------------------------------------------------
(* Vocabulary of the properties *)

\* a step in which a rule fires
RuleFires ==
    \/ Quad \/ Triple \/ Double \/ InitialVowel \/ InitialH
    \/ LongVowel \/ PrecedingVowel \/ CombinedVowel \/ Consonant

\* a step in which one of the single-vowel rules fires
VowelFires == InitialVowel \/ LongVowel \/ PrecedingVowel \/ CombinedVowel

\* the text a step appends to annatar_word
Emitted == SubSeq(annatar_word', Len(annatar_word) + 1, Len(annatar_word'))

\* length of the key of a rule
KeyLen(r) ==
    IF r = "quad" THEN 4
    ELSE IF r = "triple" THEN 3
    ELSE IF r = "double" THEN 2
    ELSE 1

\* the rule class of the longest multi-character key that is a prefix of lw
LongestKey(lw) ==
    IF Len(lw) >= 4 /\ SubSeq(lw, 1, 4) \in DOMAIN quads THEN "quad"
    ELSE IF Len(lw) >= 3 /\ SubSeq(lw, 1, 3) \in DOMAIN triples THEN "triple"
    ELSE IF Len(lw) >= 2 /\ SubSeq(lw, 1, 2) \in DOMAIN doubles THEN "double"
    ELSE "single"

RuleClass(r) == IF r \in {"quad", "triple", "double"} THEN r ELSE "single"

\* the character consumed just before the current position is a consonant
AfterConsonant ==
    /\ Len(latin_word) < Len(word)
    /\ word[Len(word) - Len(latin_word)] \in DOMAIN consonants

\* the substitution that goes with a rule of the chain
Substitution(r, lw, aw) ==
    IF r = "triple" THEN triple_substitute(lw, aw)
    ELSE IF r = "double" THEN double_substitute(lw, aw)
    ELSE IF r \in {"initial_vowel", "preceding_vowel"} THEN independent_vowel_substitute(lw, aw)
    ELSE IF r = "initial_h" THEN initial_h_substitute(lw, aw)
    ELSE IF r = "long_vowel" THEN long_vowel_substitute(lw, aw)
    ELSE IF r = "combined_vowel" THEN combined_vowel_substitute(lw, aw)
    ELSE consonant_substitute(lw, aw)

\* annatar_word at the end of one run of transliterate() taken on its own,
\* from control position p; <<"undefined">> for a run that does not return
RECURSIVE RunToEnd(_, _, _, _)
RunToEnd(p, lw, aw, wl) ==
    IF p = "done" THEN aw
    ELSE IF p = "L1" /\ quad_check(lw)
    THEN RunToEnd("chain1", quad_substitute(lw, aw).latin_word,
                  quad_substitute(lw, aw).annatar_word, wl - 4)
    ELSE LET r == Rule(LoopOf(p), lw, aw)
         IN  IF r = "none" \/ Raises(r, lw, aw) # "none" THEN <<"undefined">>
             ELSE RunToEnd(WhilePc(LoopOf(p), wl - KeyLen(r)),
                           Substitution(r, lw, aw).latin_word,
                           Substitution(r, lw, aw).annatar_word, wl - KeyLen(r))

\* the transliteration of the word w, computed from w alone
Transliteration(w) == RunToEnd(WhilePc(1, Len(w)), w, << >>, Len(w))

\* number of leading characters of s that are (sep = TRUE) or are not
\* (sep = FALSE) separators
RECURSIVE LeadingRun(_, _)
LeadingRun(s, sep) ==
    IF s = << >> \/ ((s[1] \in NonWordChars) # sep) THEN 0
    ELSE 1 + LeadingRun(Tail(s), sep)

\* the words of a sentence: its maximal runs of non-separator characters
RECURSIVE Tokens(_)
Tokens(s) ==
    IF s = << >> THEN << >>
    ELSE IF LeadingRun(s, TRUE) > 0
         THEN Tokens(SubSeq(s, LeadingRun(s, TRUE) + 1, Len(s)))
         ELSE <<SubSeq(s, 1, LeadingRun(s, FALSE))>>
              \o Tokens(SubSeq(s, LeadingRun(s, FALSE) + 1, Len(s)))

\* the tokens ts joined by single spaces
RECURSIVE SpaceJoined(_)
SpaceJoined(ts) ==
    IF ts = << >> THEN << >>
    ELSE IF Len(ts) = 1 THEN ts[1]
    ELSE ts[1] \o <<" ">> \o SpaceJoined(Tail(ts))

\* what a sentence is expected to come out as: one transliteration per word
Expected(s) ==
    SpaceJoined([i \in 1..Len(Tokens(lower(s))) |-> Transliteration(Tokens(lower(s))[i])])

-----------------------------------------------------------------------------
(* C1: transliterate() terminates and returns with latin_word empty: no    *)
(* iteration of a while loop leaves latin_word and word_length unchanged   *)
(* (which would repeat forever), and on return nothing is left to consume. *)
C1_EveryIterationConsumes ==
    /\ fired # "none"
    /\ pc \in {"done", "returned"} => latin_word = << >>

(* C2: transliterate() has no error path: no run ends in an exception      *)
(* (IndexError from indexing an empty string, KeyError from a table).      *)
C2_NoException == pc \notin {"IndexError", "KeyError"}

(* C3: whenever the quad, triple or double rule fires, the text appended   *)
(* to annatar_word is the table's glyph-string for the matched key and     *)
(* exactly len(key) characters are removed from the front of latin_word,   *)
(* also when the remaining input is exactly the key.                       *)
C3_MultiCharRuleEmitsMappedGlyph ==
    [][ /\ Quad => /\ Emitted = quads[SubSeq(latin_word, 1, 4)]
                   /\ latin_word = SubSeq(latin_word, 1, 4) \o latin_word'
        /\ Triple => /\ Emitted = triples[SubSeq(latin_word, 1, 3)]
                     /\ latin_word = SubSeq(latin_word, 1, 3) \o latin_word'
        /\ Double => /\ Emitted = doubles[SubSeq(latin_word, 1, 2)]
                     /\ latin_word = SubSeq(latin_word, 1, 2) \o latin_word'
      ]_vars

(* C4: greedy longest match: at every position where a rule fires, the     *)
(* rule that fires belongs to the longest multi-character key that is a    *)
(* prefix of the remaining input (quad before triple before double before  *)
(* the single-character rules).                                            *)
C4_LongestKeyFires ==
    [][ RuleFires => RuleClass(fired') = LongestKey(latin_word) ]_vars

(* C5: length-monotonic consumption: within a run latin_word is always a   *)
(* suffix of the original word and annatar_word only grows by appending;   *)
(* a rule firing removes from the front of latin_word exactly the rule's   *)
(* key length (4, 3, 2 or 1) and any other step of the run leaves both     *)
(* strings alone; the key lengths of the rules fired add up to the number  *)
(* of characters gone, which is len(word) when the run ends.               *)
C5_LengthMonotonicConsumption ==
    /\ [](pc \in Running \cup {"new", "done", "IndexError", "KeyError"} =>
            /\ Len(latin_word) <= Len(word)
            /\ latin_word = SubSeq(word, Len(word) - Len(latin_word) + 1, Len(word))
            /\ consumed = Len(word) - Len(latin_word)
            /\ (pc = "done" => consumed = Len(word)))
    /\ [][ /\ RuleFires =>
                /\ Len(latin_word) >= KeyLen(fired')
                /\ latin_word' = SubSeq(latin_word, KeyLen(fired') + 1, Len(latin_word))
                /\ consumed' = consumed + KeyLen(fired')
                /\ Len(annatar_word') > Len(annatar_word)
                /\ annatar_word = SubSeq(annatar_word', 1, Len(annatar_word))
           /\ (~RuleFires /\ idx' = idx /\ pc # "call") =>
                /\ latin_word' = latin_word
                /\ annatar_word' = annatar_word
         ]_vars

\* a run that fired the quad rule and then the triple rule has ended
C5_Witness ==
    /\ pc = "done"
    /\ fired = "triple"
    /\ Len(word) = 7
    /\ consumed = 7
    /\ latin_word = << >>

(* C6: vowels never fuse twice onto one carrier: the combined-vowel rule   *)
(* never fires when the last character of annatar_word is one of C, F, G,  *)
(* H, J; a single vowel that follows such a glyph is emitted as its        *)
(* independent vowel glyph-string.                                         *)
C6_NoDoubleFusion ==
    [][ /\ CombinedVowel => Last(annatar_word) \notin tengwar_vowels
        /\ (VowelFires /\ Len(annatar_word) > 0 /\ Last(annatar_word) \in tengwar_vowels) =>
                Emitted = independent_vowels[latin_word[1]]
      ]_vars

\* three adjacent vowels, each after the first emitted as an independent vowel
C6_Witness ==
    /\ Len(word) = 3
    /\ \A i \in 1..3 : word[i] \in vowels
    /\ latin_word = << >>
    /\ fired = "preceding_vowel"
    /\ Len(annatar_word) = 6

(* C7 as stated: for every vowel v (plain, diaeresis, acute), the          *)
(* glyph-string a single-vowel rule emits for v at the start of a word     *)
(* (annatar_word empty) differs from the glyph-string emitted for v        *)
(* directly after a consonant.  At the start v comes out as                *)
(* independent_vowels[v]; after a consonant it must come out otherwise.    *)
C7_InitialDiffersFromMedial ==
    [][ VowelFires =>
          /\ Len(annatar_word) = 0 => Emitted = independent_vowels[latin_word[1]]
          /\ AfterConsonant => Emitted # independent_vowels[latin_word[1]]
      ]_vars

(* C7 amended: for every plain or diaeresis vowel v the glyph-string       *)
(* emitted at the start of a word differs from the one emitted directly    *)
(* after a consonant; an acute-accented (long) vowel is emitted as the     *)
(* same long-carrier glyph-string in both places.                          *)
C7_PlainInitialDiffersFromMedial ==
    [][ VowelFires =>
          /\ Len(annatar_word) = 0 => Emitted = independent_vowels[latin_word[1]]
          /\ (AfterConsonant /\ latin_word[1] \notin DOMAIN long_vowels) =>
                Emitted # independent_vowels[latin_word[1]]
          /\ (AfterConsonant /\ latin_word[1] \in DOMAIN long_vowels) =>
                Emitted = independent_vowels[latin_word[1]]
      ]_vars

\* a diaeresis vowel at the start of a word and again after a consonant
C7_Witness ==
    /\ word = <<"ë", "t", "ë">>
    /\ pc = "done"
    /\ fired = "combined_vowel"
    /\ annatar_word = <<"grave", "F", "1", "F">>

(* C8: for a sentence of n >= 1 words separated by runs of separators,     *)
(* without leading or trailing separator, transcribe_sentence returns the  *)
(* n transliterations of the lower-cased words, each computed from its     *)
(* word alone, in input order and joined by single spaces.                 *)
C8_OneTokenPerWord ==
    (/\ pc = "returned"
     /\ Len(sentence) > 0
     /\ sentence[1] \notin NonWordChars
     /\ sentence[Len(sentence)] \notin NonWordChars)
    => /\ Len(quenya_words) = Len(Tokens(sentence))
       /\ new_sentence = Expected(sentence)

\* three different words, one with capitals, separated by a single separator
\* and by a run of two
C8_Witness ==
    /\ pc = "returned"
    /\ sentence = <<"t", "a", " ", "A", "i", "a", ",", " ", "s", "s", "a">>
    /\ new_sentence = <<"1", "C", " ", "l", "C", "grave", "C", " ", ",", "C">>

(* C9: every non-letter character only separates words and is discarded:  *)
(* the empty sentence and a sentence of separators alone come out as "",   *)
(* leading or trailing separators add no empty token and no space, and no  *)
(* non-letter character reaches the engine inside a word.                  *)
C9_SeparatorsDiscarded ==
    /\ pc = "returned" =>
         /\ new_sentence = Expected(sentence)
         /\ (\A i \in 1..Len(sentence) : sentence[i] \in NonWordChars) => new_sentence = << >>
    /\ \A i \in 1..Len(word) : word[i] \notin NonWordChars \cup {"_"}

(* C10: determinism and purity: two runs of the engine on the same word    *)
(* end with the same annatar_word whatever ran in between, and every run   *)
(* starts from the state of a fresh object, untouched by the runs before.  *)
C10_SameWordSameOutput ==
    /\ \A i, j \in 1..Len(quenya_words) :
          words[i] = words[j] => quenya_words[i] = quenya_words[j]
    /\ pc = "new" => /\ latin_word = words[idx]
                     /\ annatar_word = << >>

\* the same word transliterated twice, with another word in between
C10_Witness ==
    /\ pc = "returned"
    /\ Len(words) = 3
    /\ words[1] = words[3]
    /\ words[1] # words[2]
    /\ Len(words[1]) > 1
    /\ quenya_words[1] = quenya_words[3]

(* C11: nasalized-w carve-out: the double rule fires on the digraph 'ñw'   *)
(* only while annatar_word is still empty; after at least one emitted      *)
(* glyph the two characters go through the single-character consonant      *)
(* rule, first 'ñ' and then 'w'.                                           *)
C11_NasalizedWOnlyAtStart ==
    [][ /\ (Double /\ SubSeq(latin_word, 1, 2) = <<"ñ", "w">>) => Len(annatar_word) = 0
        /\ (RuleFires /\ Len(annatar_word) > 0 /\ Len(latin_word) >= 2
              /\ SubSeq(latin_word, 1, 2) = <<"ñ", "w">>) =>
                 /\ Consonant
                 /\ Emitted = consonants["ñ"]
      ]_vars

\* The single loop the four loops are compared with: at every step the
\* longest match length is tried first, 4 down to 1, bounded by the number
\* of remaining characters, with the same checks, tables and rule order.
SingleLoopRule(lw, aw) ==
    IF Len(lw) >= 4 /\ quad_check(lw) THEN "quad"
    ELSE IF Len(lw) >= 3 /\ triple_check(lw) THEN "triple"
    ELSE IF Len(lw) >= 2 /\ double_check(lw, aw) THEN "double"
    ELSE Rule(4, lw, aw)

\* the fields one step of the single loop leaves behind
SingleLoopStep(lw, aw) ==
    IF SingleLoopRule(lw, aw) = "quad" THEN quad_substitute(lw, aw)
    ELSE Substitution(SingleLoopRule(lw, aw), lw, aw)

\* the result of the single loop, <<"undefined">> when it does not return
RECURSIVE SingleLoopRun(_, _)
SingleLoopRun(lw, aw) ==
    IF Len(lw) = 0 THEN aw
    ELSE IF \/ SingleLoopRule(lw, aw) = "none"
            \/ Raises(SingleLoopRule(lw, aw), lw, aw) # "none"
         THEN <<"undefined">>
         ELSE SingleLoopRun(SingleLoopStep(lw, aw).latin_word,
                            SingleLoopStep(lw, aw).annatar_word)

(* C12: the four threshold-gated loops are equivalent to the single        *)
(* longest-match-first loop: every rule firing takes (latin_word,          *)
(* annatar_word) to the state the single loop reaches from there, and a    *)
(* run ends with the annatar_word the single loop ends with (and ends in   *)
(* an exception only where the single loop does not return either).        *)
C12_EquivalentToSingleLoop ==
    /\ [](pc \in {"done", "IndexError", "KeyError"} =>
            (IF pc = "done" THEN annatar_word ELSE <<"undefined">>)
               = SingleLoopRun(word, << >>))
    /\ [][ RuleFires =>
             [latin_word |-> latin_word', annatar_word |-> annatar_word']
                = SingleLoopStep(latin_word, annatar_word) ]_vars

(* C13: when the consonant rule fires on 'r' it appends the medial-r       *)
(* glyph '7' exactly when a following character exists, that character is  *)
(* a vowel and the last character of annatar_word is one of C, F, G, H, J; *)
(* in every other case it appends '6'; either way one character is         *)
(* consumed.                                                               *)
C13_MedialR ==
    [][ (Consonant /\ latin_word[1] = "r") =>
          /\ Emitted = IF /\ Len(latin_word) > 1
                          /\ latin_word[2] \in vowels
                          /\ Len(annatar_word) > 0
                          /\ annatar_word[Len(annatar_word)] \in {"C", "F", "G", "H", "J"}
                       THEN <<"7">>
                       ELSE <<"6">>
          /\ latin_word' = Tail(latin_word)
      ]_vars

\* an r between two vowels came out as the medial r
C13_Witness ==
    /\ fired = "consonant"
    /\ word = <<"a", "r", "a">>
    /\ latin_word = <<"a">>
    /\ annatar_word = <<"grave", "C", "7">>

(* C14: once a run has completed annatar_word is final: whatever happens   *)
(* next to the same LatinWord, a further call of transliterate() included, *)
(* enters no loop, fires no rule and changes neither annatar_word nor      *)
(* latin_word.                                                             *)
C14_FinalAfterCompletion ==
    [][ (pc = "done" /\ idx' = idx) =>
          /\ pc' \in {"done", "returned"}
          /\ ~RuleFires
          /\ annatar_word' = annatar_word
          /\ latin_word' = latin_word
      ]_vars

\* transliterate() was called a second time on a word that produced output
C14_Witness ==
    /\ calls = 2
    /\ pc = "done"
    /\ Len(word) > 1
    /\ Len(annatar_word) > 0
    /\ latin_word = << >>

(* C15: counter/state agreement: whenever a while condition of             *)
(* transliterate() is evaluated, word_length equals len(latin_word) and is *)
(* not negative, so loop 1 runs with more than 3 characters left, loop 2   *)
(* with 3, loop 3 with 2, loop 4 with 1, and the run ends with none left;  *)
(* this also holds after an iteration of loop 1 in which the quad rule and *)
(* then a second rule fired.                                               *)
C15_CounterAgrees ==
    pc \in {"L1", "L2", "L3", "L4", "done"} =>
        /\ word_length = Len(latin_word)
        /\ word_length >= 0
        /\ pc = "L1" => Len(latin_word) > 3
        /\ pc = "L2" => Len(latin_word) = 3
        /\ pc = "L3" => Len(latin_word) = 2
        /\ pc = "L4" => Len(latin_word) = 1
        /\ pc = "done" => Len(latin_word) = 0

\* the while condition evaluated after one iteration of loop 1 in which the
\* quad rule and then the consonant rule fired
C15_Witness ==
    /\ word = <<"s", "s", "a", "i", "t", "a">>
    /\ pc = "L4"
    /\ fired = "consonant"
    /\ consumed = 5
    /\ word_length = 1
    /\ latin_word = <<"a">>

(* C16 as stated: consonant_substitute is never entered with               *)
(* latin_word[0] == 'r' while annatar_word is empty, so its read of        *)
(* annatar_word[-1] is always defined; a word-initial 'r' is always        *)
(* consumed by the initial-consonant rule or by the 'ry' digraph rule.     *)
C16_InitialRByInitialRuleOrRy ==
    /\ []((pc \in Running /\ Len(latin_word) > 0 /\ Len(annatar_word) = 0
             /\ latin_word[1] = "r") => rule # "consonant")
    /\ [][ (RuleFires /\ Len(annatar_word) = 0 /\ latin_word[1] = "r") =>
             \/ InitialH
             \/ Double /\ SubSeq(latin_word, 1, 2) = <<"r", "y">>
         ]_vars

(* C16 amended: consonant_substitute is never entered with                 *)
(* latin_word[0] == 'r' while annatar_word is empty, so its read of        *)
(* annatar_word[-1] is always defined; a word-initial 'r' is always        *)
(* consumed by the initial-consonant rule or by a digraph rule whose key   *)
(* begins with 'r' ('rd' or 'ry').                                         *)
C16_InitialRGuarded ==
    /\ []((pc \in Running /\ Len(latin_word) > 0 /\ Len(annatar_word) = 0
             /\ latin_word[1] = "r") => rule # "consonant")
    /\ [][ (RuleFires /\ Len(annatar_word) = 0 /\ latin_word[1] = "r") =>
             \/ InitialH
             \/ Double /\ SubSeq(latin_word, 1, 2) \in { <<"r", "d">>, <<"r", "y">> }
         ]_vars

\* a word-initial r with more input behind it went through the initial rule
C16_Witness ==
    /\ fired = "initial_h"
    /\ Len(word) > 1
    /\ word[1] = "r"
    /\ latin_word = Tail(word)
    /\ annatar_word = <<"7">>

=============================================================================
